---- MODULE Spec2Model ----
(***************************************************************************)
(* A model of prosemirror-mentions: the trigger matcher (getRegexp,        *)
(* getMatch), the module-level debounce, and the plugin returned by        *)
(* getMentionsPlugin (plugin state, handleKeyDown, the plugin view).       *)
(*                                                                         *)
(* Text is a sequence of one-character strings.  A document is one         *)
(* paragraph: a sequence of inline nodes, each one position wide, so the   *)
(* paragraph content starts at position DocStart and position p sits       *)
(* before element p - DocStart + 1.                                        *)
(***************************************************************************)
EXTENDS Integers, Sequences, FiniteSets, TLC

VARIABLES
  opts,               \* the options object of getMentionsPlugin
  doc,                \* per editor: the paragraph's inline content
  sel,                \* per editor: the selection [from, to]
  pstate,             \* per editor: the plugin's field of the editor state
  thisState,          \* per editor: the property `state` of the Plugin object
  showListTimeoutId,  \* per plugin closure: showListTimeoutId
  el,                 \* per plugin closure: the dropdown element
  timeoutId,          \* the variable timeoutId of the one debounce closure
  timers,             \* the pending timers of the JavaScript runtime
  inflight,           \* getSuggestions calls whose callWhenDone has not run
  last,               \* what the last handler did: its return value, the hooks it called
  hist,               \* debounce specification: the calls made, run and superseded
  applyTr,            \* matcher specification: the transaction handed to state.apply
  applyState,         \* matcher specification: what state.apply returned
  token,              \* schema specification: a node, its DOM element, what parseDOM reads
  destroyed           \* per editor: whether the plugin view's destroy() has run

vars == <<opts, doc, sel, pstate, thisState, showListTimeoutId, el, timeoutId,
          timers, inflight, last, hist, applyTr, applyState, token, destroyed>>

\* ------------------------------------------------------------------ bounds
\* Longest paragraph an editor instance holds.
MaxLen == 2
\* Longest paragraph handed to state.apply in the matcher specification.
MaxLineLen == 4
\* Number of calls of debounce in the debounce specification.
MaxCalls == 3

\* ------------------------------------------------------- characters, nodes
\* What textBetween(.., "\n", "\0") puts in place of an inline leaf node.
LeafText == "\\0"

\* JavaScript's \s, as far as the model's texts go.
WhiteSpace == {" ", "\t", "\n"}

\* JavaScript's \w.
WordChars ==
  {"a", "b", "e", "h", "i", "k", "l", "o", "r", "w", "A", "Z", "0", "1", "9", "_"}

NoAttrs == [did |-> "", handle |-> "", tag |-> ""]

TextNode(c) == [type |-> "text", text |-> c, attrs |-> NoAttrs]

\* schema.nodes[type].create(attrs): an inline atom of that type, holding the
\* attributes its node spec declares (mentionNode: did, handle; tagNode: tag).
CreateNode(type, attrs) ==
  [type |-> type, text |-> "",
   attrs |-> IF type = "mention"
               THEN [did |-> attrs.did, handle |-> attrs.handle, tag |-> ""]
               ELSE [did |-> "", handle |-> "", tag |-> attrs.tag]]

\* The paragraph text "c1 c2 ..." as inline content.
TextContent(s) == [k \in 1..Len(s) |-> TextNode(s[k])]

\* Position of the start of the paragraph's content ($position.start()) in a
\* one-paragraph document.
DocStart == 1

\* A resolved position: the paragraph's content, where it starts, and pos.
ResolvedPos(content, start, pos) == [content |-> content, start |-> start, pos |-> pos]

\* doc.textBetween($position.before(), $position.pos, "\n", "\0"): the text of
\* the paragraph up to pos, LeafText standing for each inline leaf.
textBetween(rpos) ==
  [k \in 1..(rpos.pos - rpos.start) |->
     IF rpos.content[k].type = "text" THEN rpos.content[k].text ELSE LeafText]

\* ------------------------------------------------------------------ regexp
\* A pattern  (^|\s) trigger ( [class] op  [ \s? [class]* ] ) $  .
\* class: the characters of the bracket expression besides \w; min: 1 for
\* the operator +, 0 for *; space: whether  \s?[class]*  follows.
InClass(re, c) == c \in WordChars \/ c \in re.extra

getRegexpNoAnchor(mentionTrigger, hashtagTrigger, allowSpace, requireText) ==
  LET textOperator == IF requireText THEN 1 ELSE 0
  IN [mention |-> [anchored |-> FALSE, trigger |-> mentionTrigger, extra |-> {"-", "+"},
                   min |-> textOperator, space |-> allowSpace],
      tag     |-> [anchored |-> FALSE, trigger |-> hashtagTrigger, extra |-> {"-"},
                   min |-> 1, space |-> FALSE]]

getRegexpMentionPlus(mentionTrigger, hashtagTrigger, allowSpace, requireText) ==
  [mention |-> [anchored |-> TRUE, trigger |-> mentionTrigger, extra |-> {"-", "+"},
                min |-> 1, space |-> allowSpace],
   tag     |-> [anchored |-> TRUE, trigger |-> hashtagTrigger, extra |-> {"-"},
                min |-> 1, space |-> FALSE]]

getRegexp(mentionTrigger, hashtagTrigger, allowSpace, requireText) ==
  LET textOperator == IF requireText THEN 1 ELSE 0
  IN [mention |-> [anchored |-> TRUE, trigger |-> mentionTrigger, extra |-> {"-", "+"},
                   min |-> textOperator, space |-> allowSpace],
      tag     |-> [anchored |-> TRUE, trigger |-> hashtagTrigger, extra |-> {"-"},
                   min |-> 1, space |-> FALSE]]

\* Whether group 2 of the pattern, followed by $, matches all of s.
MatchesInner(re, s) ==
  LET n == Len(s)
      AllClass(a, b) == \A k \in a..b : InClass(re, s[k])
  IN \/ n >= re.min /\ AllClass(1, n)
     \/ /\ re.space
        /\ \E j \in 1..n : /\ s[j] \in WhiteSpace
                           /\ j - 1 >= re.min
                           /\ AllClass(1, j - 1)
                           /\ AllClass(j + 1, n)

NoRegexMatch == [found |-> FALSE, index |-> 0, g0 |-> <<>>, g1 |-> <<>>, g2 |-> <<>>]

\* The trigger option is put into the pattern's source as it is, so it is
\* read as a pattern: "." stands for any character but a line terminator,
\* any other trigger of the model for itself.
TriggerMatches(trigger, c) == IF trigger = "." THEN c # "\n" ELSE c = trigger

\* The match of the pattern that starts at 0-based index i, if there is one:
\* the alternative ^ is tried before \s.
MatchAt(text, re, i) ==
  LET n == Len(text)
      rest(k) == SubSeq(text, k, n)
      viaStart == /\ (i = 0 \/ ~re.anchored)
                  /\ i + 1 <= n
                  /\ TriggerMatches(re.trigger, text[i + 1])
                  /\ MatchesInner(re, rest(i + 2))
      viaSpace == /\ i + 2 <= n
                  /\ text[i + 1] \in WhiteSpace
                  /\ TriggerMatches(re.trigger, text[i + 2])
                  /\ MatchesInner(re, rest(i + 3))
  IN IF viaStart
       THEN [found |-> TRUE, index |-> i, g0 |-> rest(i + 1), g1 |-> <<>>,
             g2 |-> rest(i + 2)]
     ELSE IF viaSpace
       THEN [found |-> TRUE, index |-> i, g0 |-> rest(i + 1), g1 |-> <<text[i + 1]>>,
             g2 |-> rest(i + 3)]
     ELSE NoRegexMatch

\* text.match(re): the leftmost match, or null.
match(text, re) ==
  LET hits == {i \in 0..Len(text) : MatchAt(text, re, i).found}
  IN IF hits = {} THEN NoRegexMatch
     ELSE MatchAt(text, re, CHOOSE i \in hits : \A j \in hits : i <= j)

\* ---------------------------------------------------------------- getMatch
\* getMatch returns nothing when no pattern matches.
NoMatch == [found |-> FALSE, range |-> [from |-> 0, to |-> 0], queryText |-> <<>>, type |-> ""]

getMatch(rpos, o) ==
  LET text == textBetween(rpos)
      regex == getRegexp(o.mentionTrigger, o.hashtagTrigger, o.allowSpace, o.requireText)
      mentionMatch == match(text, regex.mention)
      tagMatch == match(text, regex.tag)
      m == IF mentionMatch.found THEN mentionMatch ELSE tagMatch
      type == IF mentionMatch.found THEN "mention"
              ELSE IF tagMatch.found THEN "tag" ELSE ""
      startsWithSpace == Len(m.g0) > 0 /\ m.g0[1] = " "
      index == IF startsWithSpace THEN m.index + 1 ELSE m.index
      m0 == IF startsWithSpace THEN Tail(m.g0) ELSE m.g0
      from == rpos.start + index
      to == from + Len(m0)
  IN IF m.found
       THEN [found |-> TRUE, range |-> [from |-> from, to |-> to],
             queryText |-> m.g2, type |-> type]
       ELSE NoMatch

\* ------------------------------------------------------------ plugin state
getNewState == [active |-> FALSE, range |-> [from |-> 0, to |-> 0], type |-> "", text |-> <<>>]

\* A transaction, as far as state.apply reads it: the new paragraph and the
\* new selection.
Transaction(content, from, to) == [content |-> content, selection |-> [from |-> from, to |-> to]]

applyNoSelectionCheck(tr, o) ==
  LET pm == getMatch(ResolvedPos(tr.content, DocStart, tr.selection.from), o)
  IN IF pm.found
       THEN [active |-> TRUE, range |-> pm.range, type |-> pm.type, text |-> pm.queryText]
       ELSE getNewState

apply(tr, o) ==
  LET newState == getNewState
      selection == tr.selection
      pm == getMatch(ResolvedPos(tr.content, DocStart, selection.from), o)
  IN IF selection.from # selection.to THEN newState
     ELSE IF pm.found
       THEN [active |-> TRUE, range |-> pm.range, type |-> pm.type, text |-> pm.queryText]
     ELSE newState


\* ------------------------------------------------------------------ timers
\* What the function view.update hands to debounce reads of the plugin state
\* it closes over: state.type and state.text.
Query(state) == [type |-> state.type, text |-> state.text]

\* setTimeout(func, timeout): a new pending timer; the id is returned.
\* func is the closure of view.update for editor i and plugin state `state`.
NewTimer(id, i, state, timeout) ==
  [id |-> id, inst |-> i, query |-> Query(state), timeout |-> timeout, elapsed |-> 0]

clearTimeout(ts, id) == {t \in ts : t.id # id}

\* The runtime and the closure variable debounce works on, as editor i's
\* view.update calls it.  held: the timer ids the other plugin closures hold.
\* cleared: the pending timers the call has cleared; called: the functions
\* the call has run itself, by the query of their closure (debounce runs
\* none: it only hands func to setTimeout).
Runtime(i) ==
  [timers |-> timers, timeoutId |-> timeoutId,
   held |-> {showListTimeoutId[j] : j \in DOMAIN showListTimeoutId \ {i}},
   cleared |-> {}, called |-> {}]

\* clearTimeout(id) on the runtime.
Clear(rt, id) ==
  [rt EXCEPT !.timers = clearTimeout(rt.timers, id),
             !.cleared = rt.cleared \cup (rt.timers \ clearTimeout(rt.timers, id))]

\* The id setTimeout returns: an id no pending timer has and no variable
\* holds once the call and the two assignments of its result (timeoutId in
\* debounce, showListTimeoutId in view.update) are done.  Ids are only ever
\* compared for equality, so which unused id it is does not matter.
FreshId(rt) ==
  LET used == {t.id : t \in rt.timers} \cup rt.held
  IN CHOOSE n \in 1..(Cardinality(used) + 1) :
       n \notin used /\ \A m \in 1..(n - 1) : m \in used

\* setTimeout(func, timeout) on the runtime, the id going to timeoutId.
SetTimeout(rt, i, state, timeout) ==
  [rt EXCEPT !.timers = rt.timers \cup {NewTimer(FreshId(rt), i, state, timeout)},
             !.timeoutId = FreshId(rt)]

debounceClearOnly(rt, i, state, timeout) == Clear(rt, rt.timeoutId)

debounceNoClear(rt, i, state, timeout) == SetTimeout(rt, i, state, timeout)

\* debounce(func, timeout, context): one closure, so one timeoutId, for every
\* caller.  The id returned is the new timeoutId.
debounce(rt, i, state, timeout) ==
  SetTimeout(Clear(rt, rt.timeoutId), i, state, timeout)

\* ----------------------------------------------------------------- overlay
NoItems == [type |-> "", text |-> <<>>]

\* opts.createDropdownEl(), elAddedToBody = false.  inBody: whether the
\* element is in document.body; added: elAddedToBody; items: the suggestion
\* items last given to showDropdownEl, named by the query they answer.
NewEl == [display |-> "", inBody |-> FALSE, added |-> FALSE, items |-> NoItems]

Visible(e) == e.inBody /\ e.display = "block"

hideList(e) == [e EXCEPT !.display = "none"]

\* showList finds the decorated span of the active state in the paragraph;
\* decorations() renders none while the state is inactive, and then textDOM
\* is null and textDOM.getBoundingClientRect() throws.
showListThrows(i) == ~pstate[i].active

\* Whether showList throws for editor i.  On a view that has been destroyed
\* view.domAtPos may throw as well: that is up to the editor library.
showListOutcomes(i) ==
  IF showListThrows(i) THEN {TRUE}
  ELSE IF destroyed[i] THEN BOOLEAN
  ELSE {FALSE}

showList(e, suggestionItems) ==
  [e EXCEPT !.inBody = IF e.added THEN e.inBody ELSE TRUE, !.added = TRUE,
            !.display = "block", !.items = suggestionItems]

\* ---------------------------------------------------------- handler record
NoEvent ==
  [kind |-> "init", inst |-> 0, keyCode |-> 0, consumed |-> FALSE, calls |-> <<>>,
   dispatched |-> FALSE, threw |-> FALSE, id |-> 0, waited |-> 0, cleared |-> {},
   query |-> NoItems, attrsNull |-> TRUE]

\* The editors whose timers are among ts.
Owners(ts) == {t.inst : t \in ts}

\* ------------------------------------------------------------- view.update
\* What update(view) leaves behind for editor i whose plugin state is state:
\* the runtime, showListTimeoutId, the element, and the hooks it called.
viewUpdate(rt, i, state, slt, e) ==
  IF ~state.active \/ (opts.requireText /\ state.text = <<>>)
    THEN [rt |-> Clear(rt, slt),
          slt |-> slt,
          el |-> hideList(e),
          calls |-> <<"hideDropdownEl">>]
    ELSE LET d == debounce(rt, i, state, opts.delay)
         IN [rt |-> d, slt |-> d.timeoutId, el |-> e, calls |-> <<>>]

\* view.dispatch(t): the editor state is replaced by state.apply(t) (the
\* plugin's apply included) and every plugin view is updated, in one turn.
Dispatch(i, t, ev) ==
  \E newState \in {apply(t, opts)} :
  \E u \in {viewUpdate(Runtime(i), i, newState, showListTimeoutId[i], el[i])} :
     /\ doc' = [doc EXCEPT ![i] = t.content]
     /\ sel' = [sel EXCEPT ![i] = t.selection]
     /\ pstate' = [pstate EXCEPT ![i] = newState]
     /\ timers' = u.rt.timers
     /\ timeoutId' = u.rt.timeoutId
     /\ showListTimeoutId' = [showListTimeoutId EXCEPT ![i] = u.slt]
     /\ el' = [el EXCEPT ![i] = u.el]
     /\ inflight' = inflight \cup u.rt.called
     /\ last' = [ev EXCEPT !.inst = i, !.dispatched = TRUE,
                           !.calls = ev.calls \o u.calls
                                       \o [k \in 1..Cardinality(u.rt.called) |-> "getSuggestions"],
                           !.cleared = Owners(u.rt.cleared)]
     /\ UNCHANGED <<opts, thisState, hist, applyTr, applyState, token, destroyed>>

\* ----------------------------------------------------------- handleKeyDown
KeyCodes == {13, 27, 38, 40, 65}

\* What getCurItemAttrsForSelect may return: null, or the attributes of the
\* highlighted item.
NullAttrs == [isNull |-> TRUE, did |-> "", handle |-> "", tag |-> ""]
ItemAttrs == {NullAttrs, [isNull |-> FALSE, did |-> "d1", handle |-> "al", tag |-> "t1"]}

replaceWithInsert(content, selection, from, to, node) ==
  Transaction(SubSeq(content, 1, to - DocStart) \o <<node>>
                \o SubSeq(content, to - DocStart + 1, Len(content)),
              selection.from + 1, selection.to + 1)

\* tr.replaceWith(from, to, node) on the paragraph, with the caret mapped
\* through the step (a caret at the end of the replaced range lands after the
\* node).
replaceWith(content, selection, from, to, node) ==
  LET mapPos(p) == IF p <= from THEN p ELSE IF p <= to THEN from + 1 ELSE p - (to - from) + 1
  IN Transaction(SubSeq(content, 1, from - DocStart) \o <<node>>
                   \o SubSeq(content, to - DocStart + 1, Len(content)),
                 mapPos(selection.from), mapPos(selection.to))

selectAlways(attrs) == TRUE

\* select: whether a transaction is dispatched.
select(attrs) == ~attrs.isNull

keyBranchDownFirst(state, keyCode) ==
  IF keyCode = 40 THEN "down"
  ELSE IF ~state.active THEN "inactive"
  ELSE IF keyCode = 38 THEN "up"
  ELSE IF keyCode = 13 THEN "enter"
  ELSE IF keyCode = 27 THEN "esc"
  ELSE "none"

\* The branch handleKeyDown takes.
keyBranch(state, keyCode) ==
  IF ~state.active THEN "inactive"
  ELSE IF keyCode = 40 THEN "down"
  ELSE IF keyCode = 38 THEN "up"
  ELSE IF keyCode = 13 THEN "enter"
  ELSE IF keyCode = 27 THEN "esc"
  ELSE "none"

KeyEvent(i, keyCode, consumed, calls) ==
  [NoEvent EXCEPT !.kind = "keydown", !.inst = i, !.keyCode = keyCode,
                  !.consumed = consumed, !.calls = calls]

\* The record of an Enter that asked getCurItemAttrsForSelect and got attrs.
EnterEvent(i, keyCode, attrs) ==
  [KeyEvent(i, keyCode, TRUE, <<"getCurItemAttrsForSelect">>) EXCEPT
     !.attrsNull = attrs.isNull]

handleKeyDown(i, keyCode, attrs) ==
  LET state == pstate[i]    \* this.getState(view.state)
      branch == keyBranch(state, keyCode)
  IN \/ /\ branch \in {"inactive", "none"}
        /\ last' = KeyEvent(i, keyCode, FALSE, <<>>)
        /\ UNCHANGED <<opts, doc, sel, pstate, thisState, showListTimeoutId, el,
                       timeoutId, timers, inflight, hist, applyTr, applyState, token, destroyed>>
     \/ /\ branch \in {"down", "up"}
        /\ last' = KeyEvent(i, keyCode, TRUE,
                            IF branch = "down" THEN <<"goNext">> ELSE <<"goPrev">>)
        /\ UNCHANGED <<opts, doc, sel, pstate, thisState, showListTimeoutId, el,
                       timeoutId, timers, inflight, hist, applyTr, applyState, token, destroyed>>
     \/ /\ branch = "enter"
        /\ ~select(attrs)
        /\ last' = EnterEvent(i, keyCode, attrs)
        /\ UNCHANGED <<opts, doc, sel, pstate, thisState, showListTimeoutId, el,
                       timeoutId, timers, inflight, hist, applyTr, applyState, token, destroyed>>
     \/ /\ branch = "enter"
        /\ select(attrs)
        /\ Dispatch(i,
                    replaceWith(doc[i], sel[i], state.range.from, state.range.to,
                                CreateNode(state.type, attrs)),
                    EnterEvent(i, keyCode, attrs))
     \/ /\ branch = "esc"
        /\ timers' = clearTimeout(timers, showListTimeoutId[i])
        /\ el' = [el EXCEPT ![i] = hideList(el[i])]
        \* this.state = getNewState(): a property of the Plugin object, which
        \* getState never reads.
        /\ thisState' = [thisState EXCEPT ![i] = [assigned |-> TRUE, value |-> getNewState]]
        /\ last' = [KeyEvent(i, keyCode, TRUE, <<"hideDropdownEl">>) EXCEPT
                      !.cleared = Owners(Clear(Runtime(i), showListTimeoutId[i]).cleared)]
        /\ UNCHANGED <<opts, doc, sel, pstate, showListTimeoutId, timeoutId,
                       inflight, hist, applyTr, applyState, token, destroyed>>

\* ------------------------------------------------------- host transactions
Chars == {"@", "#", "a"}

\* The transactions the host dispatches on editor i: typing a character over
\* the selection, deleting (the selection, or the character before the
\* caret), and setting the selection.
HostTransactions(i, chars) ==
  LET content == doc[i]
      from == sel[i].from
      to == sel[i].to
      n == Len(content)
      before == SubSeq(content, 1, from - DocStart)
      after == SubSeq(content, to - DocStart + 1, n)
  IN {Transaction(before \o <<TextNode(c)>> \o after, from + 1, from + 1) :
        c \in {x \in chars : Len(before) + 1 + Len(after) <= MaxLen}}
     \cup {Transaction(before \o after, from, from) : x \in {y \in {0} : from < to}}
     \cup {Transaction(SubSeq(content, 1, from - DocStart - 1) \o after, from - 1, from - 1) :
             x \in {y \in {0} : from = to /\ from > DocStart}}
     \cup UNION {{Transaction(content, f, t) : t \in f..(DocStart + n)} :
                   f \in DocStart..(DocStart + n)}

dispatchTransaction(i, chars) ==
  \E t \in HostTransactions(i, chars) :
    Dispatch(i, t, [NoEvent EXCEPT !.kind = "transaction"])

\* ------------------------------------------------------------ time, timers
\* Time passes: one tick of the clock.
Tick ==
  /\ \E t \in timers : t.elapsed < t.timeout
  /\ timers' = {[t EXCEPT !.elapsed = IF t.elapsed < t.timeout THEN t.elapsed + 1
                                       ELSE t.elapsed] : t \in timers}
  /\ last' = [NoEvent EXCEPT !.kind = "tick"]
  /\ UNCHANGED <<opts, doc, sel, pstate, thisState, showListTimeoutId, el, timeoutId,
                 inflight, hist, applyTr, applyState, token, destroyed>>

\* A due timer runs its function: opts.getSuggestions(state.type, state.text,
\* callWhenDone).
timerFires(t) ==
  /\ t \in timers
  /\ t.elapsed >= t.timeout
  /\ timers' = timers \ {t}
  /\ inflight' = inflight \cup {[inst |-> t.inst, query |-> t.query]}
  /\ last' = [NoEvent EXCEPT !.kind = "timer", !.inst = t.inst, !.id = t.id,
                             !.waited = t.elapsed, !.query = t.query,
                             !.calls = <<"getSuggestions">>]
  /\ hist' = IF t.id \in DOMAIN hist.task
               THEN [hist EXCEPT !.ran = hist.ran \cup {hist.task[t.id]}]
               ELSE hist
  /\ UNCHANGED <<opts, doc, sel, pstate, thisState, showListTimeoutId, el, timeoutId,
                 applyTr, applyState, token, destroyed>>

\* The caller's getSuggestions calls callWhenDone(suggestionItems), which
\* calls showList(view, state, suggestionItems, opts).
callWhenDone(r) ==
  LET i == r.inst
      suggestionItems == r.query
  IN /\ r \in inflight
     /\ inflight' = inflight \ {r}
     /\ \E throws \in showListOutcomes(i) :
        IF throws
          THEN /\ el' = el
               /\ last' = [NoEvent EXCEPT !.kind = "callWhenDone", !.inst = i,
                                          !.query = r.query, !.threw = TRUE,
                                          !.calls = <<"showList">>]
          ELSE /\ el' = [el EXCEPT ![i] = showList(el[i], suggestionItems)]
               /\ last' = [NoEvent EXCEPT !.kind = "callWhenDone", !.inst = i,
                                          !.query = r.query,
                                          !.calls = <<"showList", "showDropdownEl">>]
     /\ UNCHANGED <<opts, doc, sel, pstate, thisState, showListTimeoutId, timeoutId,
                    timers, hist, applyTr, applyState, token, destroyed>>

\* ---------------------------------------------------------------- teardown
\* The plugin view's destroy(): el.remove(), opts.destroy(el).
destroy(i) ==
  /\ ~destroyed[i]
  /\ destroyed' = [destroyed EXCEPT ![i] = TRUE]
  /\ el' = [el EXCEPT ![i].inBody = FALSE]
  /\ last' = [NoEvent EXCEPT !.kind = "destroy", !.inst = i, !.calls = <<"destroy">>]
  /\ UNCHANGED <<opts, doc, sel, pstate, thisState, showListTimeoutId, timeoutId,
                 timers, inflight, hist, applyTr, applyState, token>>

\* ------------------------------------------------------------------ schema
\* A DOM element as toDOM's output spec describes it: the tag, the
\* attributes (a function of their names) and the text child.
mentionToDOMSwapped(node) ==
  [tag |-> "span",
   attributes |-> ("data-mention-did" :> node.attrs.handle)
                    @@ ("data-mention-handle" :> node.attrs.did)
                    @@ ("class" :> "prosemirror-mention-node"),
   text |-> "@" \o node.attrs.handle]

\* mentionNode.toDOM
mentionNode_toDOM(node) ==
  [tag |-> "span",
   attributes |-> ("data-mention-did" :> node.attrs.did)
                    @@ ("data-mention-handle" :> node.attrs.handle)
                    @@ ("class" :> "prosemirror-mention-node"),
   text |-> "@" \o node.attrs.handle]

\* tagNode.toDOM
tagNode_toDOM(node) ==
  [tag |-> "span",
   attributes |-> ("data-tag" :> node.attrs.tag) @@ ("class" :> "prosemirror-tag-node"),
   text |-> "#" \o node.attrs.tag]

\* The parse rule did not match the element.
NoParse == [matched |-> FALSE, attrs |-> NoAttrs]

\* The CSS selector  tag[name1][name2]...  .
Selects(tag, names, dom) == dom.tag = tag /\ names \subseteq DOMAIN dom.attributes

\* mentionNode.parseDOM: span[data-mention-did][data-mention-handle], getAttrs.
mentionNode_parseDOM(dom) ==
  IF Selects("span", {"data-mention-did", "data-mention-handle"}, dom)
    THEN [matched |-> TRUE,
          attrs |-> [did |-> dom.attributes["data-mention-did"],
                     handle |-> dom.attributes["data-mention-handle"],
                     tag |-> ""]]
    ELSE NoParse

\* tagNode.parseDOM: span[data-tag], getAttrs.
tagNode_parseDOM(dom) ==
  IF Selects("span", {"data-tag"}, dom)
    THEN [matched |-> TRUE,
          attrs |-> [did |-> "", handle |-> "", tag |-> dom.attributes["data-tag"]]]
    ELSE NoParse

NoToken ==
  [type |-> "", node |-> TextNode(""), dom |-> [tag |-> "", attributes |-> <<>>, text |-> ""],
   mention |-> NoParse, tag |-> NoParse]

\* ---------------------------------------------------------- specifications
Views == {1, 2}

\* The options: the default triggers and delay (the unit of the model's
\* clock), allowSpace and requireText either way.
OptsSet ==
  {[mentionTrigger |-> "@", hashtagTrigger |-> "#", allowSpace |-> a, requireText |-> r,
    delay |-> 1] : a \in BOOLEAN, r \in BOOLEAN}

\* After construction: state.init() for every editor, an empty paragraph with
\* the caret in it, no timer set.
Constructed ==
  /\ doc = [i \in Views |-> <<>>]
  /\ sel = [i \in Views |-> [from |-> DocStart, to |-> DocStart]]
  /\ pstate = [i \in Views |-> getNewState]
  /\ thisState = [i \in Views |-> [assigned |-> FALSE, value |-> getNewState]]
  /\ showListTimeoutId = [i \in Views |-> 0]
  /\ el = [i \in Views |-> NewEl]
  /\ timeoutId = 0
  /\ timers = {}
  /\ inflight = {}
  /\ last = NoEvent
  /\ hist = [calls |-> 0, task |-> <<>>, ran |-> {}, late |-> {}]
  /\ applyTr = Transaction(<<>>, DocStart, DocStart)
  /\ applyState = getNewState
  /\ token = NoToken
  /\ destroyed = [i \in Views |-> FALSE]

Init == opts \in OptsSet /\ Constructed

\* One editor.  (Its texts hold no white space, so allowSpace changes nothing.)
InitOne == Init /\ opts.allowSpace

Next ==
  \/ dispatchTransaction(1, Chars)
  \/ \E keyCode \in KeyCodes :
       \E attrs \in (IF keyCode = 13 THEN ItemAttrs ELSE {NullAttrs}) :
         handleKeyDown(1, keyCode, attrs)
  \/ Tick
  \/ \E t \in timers : timerFires(t)
  \/ \E r \in inflight : callWhenDone(r)

Spec == InitOne /\ [][Next]_vars

\* One editor under the event loop: time passes, and a due timer runs.
SpecLive ==
  /\ InitOne
  /\ [][Next]_vars
  /\ WF_vars(Tick)
  /\ WF_vars(\E t \in timers : timerFires(t))

\* The matcher: state.apply on any transaction over a richer alphabet.
MatchChars == {"@", "#", "a", "+", " ", "\t"}

MatchNodes ==
  {TextNode(c) : c \in MatchChars}
    \cup {CreateNode("mention", [did |-> "d1", handle |-> "al", tag |-> ""])}

LineContents == UNION {[1..n -> MatchNodes] : n \in 0..MaxLineLen}

\* apply is a function of the transaction and the options alone, so one call
\* per behaviour reaches every result.
stateApply ==
  /\ last.kind = "init"
  /\ \E content \in LineContents :
       \E from \in DocStart..(DocStart + Len(content)) :
         \E to \in {p \in {from, from + 1} : p <= DocStart + Len(content)} :
           /\ applyTr' = Transaction(content, from, to)
           /\ applyState' = apply(Transaction(content, from, to), opts)
  /\ last' = [NoEvent EXCEPT !.kind = "apply"]
  /\ UNCHANGED <<opts, doc, sel, pstate, thisState, showListTimeoutId, el,
                 timeoutId, timers, inflight, hist, token, destroyed>>

SpecMatch == Init /\ [][stateApply]_vars

\* The matcher under other triggers: the caller may pass any string.
TriggerOpts ==
  {[mentionTrigger |-> m, hashtagTrigger |-> "#", allowSpace |-> a, requireText |-> r,
    delay |-> 1] : m \in {"@", "."}, a \in BOOLEAN, r \in BOOLEAN}

InitTrigger == opts \in TriggerOpts /\ Constructed

SpecTrigger == InitTrigger /\ [][stateApply]_vars

\* Two editors, each with its own plugin from getMentionsPlugin, in one page:
\* one module, so one debounce.  Only the trigger is typed.
NextTwo ==
  \/ \E i \in Views : dispatchTransaction(i, {"@"})
  \/ Tick
  \/ \E t \in timers : timerFires(t)
  \/ \E r \in inflight : callWhenDone(r)

SpecTwo == InitOne /\ [][NextTwo]_vars

\* One editor that is typed in and then destroyed, the runtime going on.
NextDestroy ==
  \/ ~destroyed[1] /\ dispatchTransaction(1, {"@", "a"})
  \/ destroy(1)
  \/ Tick
  \/ \E t \in timers : timerFires(t)
  \/ \E r \in inflight : callWhenDone(r)

SpecDestroy == InitOne /\ [][NextDestroy]_vars

\* debounce on its own: any caller, any function, at most MaxCalls calls.
DebounceStates ==
  {[active |-> TRUE, range |-> [from |-> 1, to |-> 1 + Len(x)], type |-> "mention", text |-> x] :
     x \in {<<>>, <<"a">>}}

\* hist numbers the calls: task maps the id of a pending timer to its call,
\* ran holds the calls whose function has run, late the calls that were
\* pending when a later call was made.
debounceCall(i, state) ==
  LET rt == debounce(Runtime(i), i, state, opts.delay)
      n == hist.calls + 1
      kept == {t.id : t \in rt.timers} \cap DOMAIN hist.task
  IN /\ hist.calls < MaxCalls
     /\ timers' = rt.timers
     /\ timeoutId' = rt.timeoutId
     /\ showListTimeoutId' = [showListTimeoutId EXCEPT ![i] = rt.timeoutId]
     /\ inflight' = inflight \cup rt.called
     /\ hist' = [calls |-> n,
                 task |-> (rt.timeoutId :> n) @@ [id \in kept |-> hist.task[id]],
                 ran |-> hist.ran \cup (IF rt.called = {} THEN {} ELSE {n}),
                 late |-> hist.late \cup {hist.task[t.id] : t \in timers}]
     /\ last' = [NoEvent EXCEPT !.kind = "debounce", !.inst = i, !.id = rt.timeoutId,
                                !.cleared = Owners(rt.cleared)]
     /\ UNCHANGED <<opts, doc, sel, pstate, thisState, el, applyTr, applyState, token, destroyed>>

NextDebounce ==
  \/ \E i \in Views, state \in DebounceStates : debounceCall(i, state)
  \/ Tick
  \/ \E t \in timers : timerFires(t)

\* The event loop: time passes, and a timer that is due runs.
SpecDebounce ==
  /\ InitOne
  /\ [][NextDebounce]_vars
  /\ WF_vars(Tick)
  /\ WF_vars(\E t \in timers : timerFires(t))

\* The schema: a node of either type is rendered with toDOM and the element
\* is given to both parse rules.
AttrValues == {"", "a", "al", "ali", "d1", "d2", "t1", "work", "w-1", "x+y"}

serialize ==
  /\ last.kind = "init"
  /\ \E type \in {"mention", "tag"}, did \in AttrValues, handle \in AttrValues :
       \E node \in {CreateNode(type, [did |-> did, handle |-> handle, tag |-> handle])} :
       \E dom \in {IF type = "mention" THEN mentionNode_toDOM(node) ELSE tagNode_toDOM(node)} :
         token' = [type |-> type, node |-> node, dom |-> dom,
                   mention |-> mentionNode_parseDOM(dom), tag |-> tagNode_parseDOM(dom)]
  /\ last' = [NoEvent EXCEPT !.kind = "serialize"]
  /\ UNCHANGED <<opts, doc, sel, pstate, thisState, showListTimeoutId, el, timeoutId,
                 timers, inflight, hist, applyTr, applyState, destroyed>>

SpecSchema == Init /\ [][serialize]_vars

\* ------------------------------------------------------------------ claims
Called(hook) == \E k \in DOMAIN last.calls : last.calls[k] = hook

\* C1 (as the specification states it): a completion callback calls showList
\* and showDropdownEl only if the plugin state is still active with the
\* (type, text) its request was made for; so while the state is active with
\* another query, a completion for the old query shows nothing.
C1_StaleResultGuard ==
  (/\ last.kind = "callWhenDone"
   /\ pstate[1].active
   /\ Query(pstate[1]) # last.query)
    => ~Called("showList") /\ ~Called("showDropdownEl")

\* C2: of the calls to debounce, one that was still pending when a later call
\* was made never runs its function; a function runs only once the delay has
\* passed since its call, never in the call itself; there is never more than
\* one pending timer; and in the end every call that was not superseded has
\* run: a burst runs exactly the function of its last call.
C2_Safe ==
  /\ hist.ran \cap hist.late = {}
  /\ Cardinality(timers) <= 1
  /\ last.kind = "timer" => last.waited >= opts.delay
  /\ last.kind = "debounce" =>
       /\ hist.calls \notin hist.ran
       /\ ~Called("getSuggestions")
       /\ \E t \in timers : t.id = last.id /\ t.elapsed = 0

C2_TrailingDebounce ==
  /\ []C2_Safe
  /\ <>[](hist.ran \cup hist.late = 1..hist.calls)

\* A burst of three calls of which only the last has run.
C2_Witness ==
  /\ hist.calls = 3
  /\ hist.late = {1, 2}
  /\ hist.ran = {3}
  /\ last.kind = "timer"

\* C3 (as the specification states it): after Escape is handled, the state
\* the next handleKeyDown reads is inactive, the overlay is hidden and no
\* timer of the editor is pending.
C3_EscapeDeactivates ==
  (last.kind = "keydown" /\ last.keyCode = 27 /\ last.consumed)
    => /\ ~pstate[1].active
       /\ ~Visible(el[1])
       /\ 1 \notin Owners(timers)

\* C4: whenever the selection is a non-empty range, the plugin state is the
\* inactive state (active false, range {0,0}, type and text empty), whatever
\* the text around the selection.
C4_RangeSelectionInactive ==
  sel[1].from # sel[1].to => pstate[1] = getNewState

\* A range selection right after a trigger at line start, just dispatched.
C4_Witness ==
  /\ last.kind = "transaction"
  /\ sel[1] = [from |-> DocStart + 1, to |-> DocStart + 2]
  /\ doc[1][1] = TextNode("@")

\* The text before the caret of the transaction state.apply was given.
ApplyText == textBetween(ResolvedPos(applyTr.content, DocStart, applyTr.selection.from))

\* The word characters the claim names: letters, digits, - and +.
ClaimWordChar(c) == c \in (WordChars \ {"_"}) \cup {"-", "+"}

\* Whether the mention trigger is the k-th character of text, at line start
\* or after white space, and what follows it is a query the claim admits.
MentionAt(text, k) ==
  LET n == Len(text)
      tail == SubSeq(text, k + 1, n)
      word(a, b) == \A j \in a..b : ClaimWordChar(tail[j])
  IN /\ text[k] = opts.mentionTrigger
     /\ (k = 1 \/ text[k - 1] \in WhiteSpace)
     /\ \/ word(1, Len(tail)) /\ (opts.requireText => Len(tail) >= 1)
        \/ /\ opts.allowSpace
           /\ \E j \in 1..Len(tail) :
                /\ tail[j] = " "
                /\ word(1, j - 1)
                /\ word(j + 1, Len(tail))
                /\ opts.requireText => j >= 2

\* C5: when the mention trigger is at line start or after white space and
\* the text from there to the caret is word characters (with one space if
\* allowSpace, and a leading word character if requireText), the match is a
\* mention whose queryText is the text between the trigger and the caret;
\* "hello @ali" with line start 0 gives range {6, 10} and queryText "ali".
C5_MentionActivation ==
  /\ (last.kind = "apply" /\ applyTr.selection.from = applyTr.selection.to) =>
       \A k \in 1..Len(ApplyText) :
         MentionAt(ApplyText, k) =>
           /\ applyState.active
           /\ applyState.type = "mention"
           /\ applyState.text = SubSeq(ApplyText, k + 1, Len(ApplyText))
           /\ applyState.range.to = applyTr.selection.from
  /\ getMatch(ResolvedPos(TextContent(<<"h", "e", "l", "l", "o", " ", "@", "a", "l", "i">>),
                          0, 10),
              [mentionTrigger |-> "@", hashtagTrigger |-> "#", allowSpace |-> TRUE,
               requireText |-> FALSE])
       = [found |-> TRUE, range |-> [from |-> 6, to |-> 10],
          queryText |-> <<"a", "l", "i">>, type |-> "mention"]

\* A trigger after white space followed by a query with a space in it.
C5_Witness ==
  /\ last.kind = "apply"
  /\ applyTr.selection.from = applyTr.selection.to
  /\ \E k \in 2..Len(ApplyText) :
       /\ MentionAt(ApplyText, k)
       /\ \E j \in (k + 1)..Len(ApplyText) : ApplyText[j] = " "

\* C6: when every trigger character before the caret comes right after a
\* character that is not white space, getMatch finds nothing and the state
\* after the change is inactive ("a@b" with the caret at 3).
C6_WordBoundary ==
  /\ (/\ last.kind = "apply"
      /\ \A k \in 1..Len(ApplyText) :
           ApplyText[k] \in {opts.mentionTrigger, opts.hashtagTrigger} =>
             k > 1 /\ ApplyText[k - 1] \notin WhiteSpace)
       => /\ ~applyState.active
          /\ applyState = getNewState
          /\ ~getMatch(ResolvedPos(applyTr.content, DocStart, applyTr.selection.from),
                       opts).found
  /\ \A o \in OptsSet :
       getMatch(ResolvedPos(TextContent(<<"a", "@", "b">>), 0, 3), o) = NoMatch

\* A caret after a trigger that follows a letter, with a query after it.
C6_Witness ==
  /\ last.kind = "apply"
  /\ applyTr.selection.from = applyTr.selection.to
  /\ ApplyText = <<"a", "@", "a">>

\* C7: a key is consumed exactly when the state handleKeyDown reads is active
\* and the key is ArrowDown, ArrowUp, Enter or Escape; ArrowDown calls goNext
\* once and ArrowUp goPrev once, and nothing else; any other key, and any
\* key while inactive, calls no hook and changes neither the document, the
\* plugin state, the overlay nor the timers.
C7_KeyStep ==
  last'.kind = "keydown" =>
    LET active == pstate[last'.inst].active
        keyCode == last'.keyCode
        handled == active /\ keyCode \in {40, 38, 13, 27}
    IN /\ last'.consumed = handled
       /\ (active /\ keyCode = 40) => last'.calls = <<"goNext">>
       /\ (active /\ keyCode = 38) => last'.calls = <<"goPrev">>
       /\ (active /\ keyCode \in {40, 38}) =>
            UNCHANGED <<doc, sel, pstate, el, timers, timeoutId, showListTimeoutId, inflight>>
       /\ ~handled =>
            /\ last'.calls = <<>>
            /\ ~last'.dispatched
            /\ UNCHANGED <<doc, sel, pstate, thisState, el, timers, timeoutId,
                           showListTimeoutId, inflight>>

C7_KeyConsumption == [][C7_KeyStep]_vars

\* ArrowDown handled while a suggestion is active and its overlay is shown.
C7_Witness ==
  /\ last.kind = "keydown"
  /\ last.keyCode = 40
  /\ last.consumed
  /\ last.calls = <<"goNext">>
  /\ Visible(el[1])

\* C8: Enter in an active state, getCurItemAttrsForSelect returning nothing:
\* no transaction is dispatched, the document, the selection and the plugin
\* state stay as they are, and the key is consumed.
C8_EnterStep ==
  (/\ last'.kind = "keydown"
   /\ last'.keyCode = 13
   /\ pstate[last'.inst].active
   /\ last'.attrsNull)
    => /\ ~last'.dispatched
       /\ last'.consumed
       /\ last'.calls = <<"getCurItemAttrsForSelect">>
       /\ UNCHANGED <<doc, sel, pstate, el, timers>>

C8_EnterWithoutItem == [][C8_EnterStep]_vars

\* Enter was consumed in an active state without an item to insert.
C8_Witness ==
  /\ last.kind = "keydown"
  /\ last.keyCode = 13
  /\ last.consumed
  /\ last.attrsNull
  /\ pstate[1].active
  /\ ~last.dispatched

\* C9 (as the specification states it): a completion that runs while the
\* state is inactive does not call showList, raises no error, and leaves the
\* overlay hidden.
C9_InactiveResultDiscarded ==
  (last.kind = "callWhenDone" /\ ~pstate[1].active)
    => /\ ~Called("showList")
       /\ ~last.threw
       /\ ~Visible(el[1])

\* C10 (as the specification states it): a transaction of one editor never
\* clears a pending timer of the other editor.
C10_InstanceIsolation ==
  last.kind = "transaction" => last.cleared \subseteq {last.inst}

\* C11: a mention node rendered by mentionNode.toDOM and read back by
\* mentionNode.parseDOM has the same did and handle, and its text is "@"
\* followed by the handle; a tag node rendered by tagNode.toDOM and read back
\* by tagNode.parseDOM has the same tag and the text "#" followed by the tag;
\* the element of one type is not matched by the parse rule of the other.
C11_TokenRoundTrip ==
  /\ token.type = "mention" =>
       /\ token.mention.matched
       /\ token.mention.attrs.did = token.node.attrs.did
       /\ token.mention.attrs.handle = token.node.attrs.handle
       /\ token.dom.text = "@" \o token.node.attrs.handle
       /\ ~token.tag.matched
  /\ token.type = "tag" =>
       /\ token.tag.matched
       /\ token.tag.attrs.tag = token.node.attrs.tag
       /\ token.dom.text = "#" \o token.node.attrs.tag
       /\ ~token.mention.matched

\* A mention with different did and handle was rendered and read back.
C11_Witness ==
  /\ last.kind = "serialize"
  /\ token.type = "mention"
  /\ token.node.attrs.did = "d1"
  /\ token.node.attrs.handle = "ali"
  /\ token.mention.matched

\* C12: Enter in an active state, getCurItemAttrsForSelect returning the
\* attributes of an item: one transaction is dispatched; it replaces exactly
\* the positions range.from to range.to of the state with one node of the
\* state's type that carries those attributes; and the plugin state that
\* state.apply computes for it is inactive.
C12_SelectStep ==
  (/\ last'.kind = "keydown"
   /\ last'.keyCode = 13
   /\ pstate[1].active
   /\ ~last'.attrsNull)
    => LET range == pstate[1].range
           n == Len(doc'[1])
           at == range.from - DocStart + 1
       IN /\ last'.dispatched
          /\ last'.consumed
          /\ n = Len(doc[1]) - (range.to - range.from) + 1
          /\ SubSeq(doc'[1], 1, at - 1) = SubSeq(doc[1], 1, at - 1)
          /\ SubSeq(doc'[1], at + 1, n) = SubSeq(doc[1], range.to - DocStart + 1, Len(doc[1]))
          /\ doc'[1][at].type = pstate[1].type
          /\ doc'[1][at].type \in {"mention", "tag"}
          /\ \E attrs \in ItemAttrs :
               /\ ~attrs.isNull
               /\ doc'[1][at].type = "mention" =>
                    /\ doc'[1][at].attrs.did = attrs.did
                    /\ doc'[1][at].attrs.handle = attrs.handle
               /\ doc'[1][at].type = "tag" => doc'[1][at].attrs.tag = attrs.tag
          /\ pstate'[1] = getNewState

C12_SelectItem == [][C12_SelectStep]_vars

\* Enter has replaced "#a" by a tag node, and the state is inactive.
C12_Witness ==
  /\ last.kind = "keydown"
  /\ last.keyCode = 13
  /\ last.dispatched
  /\ ~last.attrsNull
  /\ Len(doc[1]) = 1
  /\ doc[1][1].type = "tag"
  /\ doc[1][1].attrs.tag = "t1"
  /\ ~pstate[1].active

\* Where the trigger of the active state sits in the text before the caret:
\* right before the query text.
TriggerIndex == Len(ApplyText) - Len(applyState.text)

\* C13 (as the specification states it): when the trigger of a match comes
\* after a white-space character of any kind, range.from is the position of
\* the trigger itself and range.to - range.from is 1 + the length of the
\* query text.
C13_LeadingWhitespaceStrip ==
  (/\ last.kind = "apply"
   /\ applyState.active
   /\ TriggerIndex > 1
   /\ ApplyText[TriggerIndex - 1] \in WhiteSpace)
    => /\ applyState.range.from = DocStart + TriggerIndex - 1
       /\ applyState.range.to - applyState.range.from = 1 + Len(applyState.text)

\* C14 (as the specification states it): a text ending with the hashtag
\* trigger, at line start or after white space, followed by one or more of
\* the word characters (letters, digits, - and +), gives a tag match whose
\* queryText is those characters; and the queryText of a tag match is never
\* empty and holds no white space; "#work" gives range {0, 5}, "work".
C14_TagPattern ==
  /\ (last.kind = "apply" /\ applyTr.selection.from = applyTr.selection.to) =>
       \A k \in 1..(Len(ApplyText) - 1) :
         (/\ ApplyText[k] = opts.hashtagTrigger
          /\ (k = 1 \/ ApplyText[k - 1] \in WhiteSpace)
          /\ \A j \in (k + 1)..Len(ApplyText) : ClaimWordChar(ApplyText[j]))
           => /\ applyState.active
              /\ applyState.type = "tag"
              /\ applyState.text = SubSeq(ApplyText, k + 1, Len(ApplyText))
  /\ (last.kind = "apply" /\ applyState.type = "tag") =>
       /\ applyState.text # <<>>
       /\ \A j \in 1..Len(applyState.text) : applyState.text[j] \notin WhiteSpace
  /\ \A o \in OptsSet :
       getMatch(ResolvedPos(TextContent(<<"#", "w", "o", "r", "k", " ", "i">>), 0, 5), o)
         = [found |-> TRUE, range |-> [from |-> 0, to |-> 5],
            queryText |-> <<"w", "o", "r", "k">>, type |-> "tag"]

\* C16 (as the specification states it): with the caret right after a
\* mention trigger that is at line start or after white space, requireText
\* gives no match, and without requireText the match is a mention with empty
\* queryText and a range of length 1; under requireText the text of an active
\* state is non-empty and starts with a word character; an empty line gives
\* no match.
C16_RequireTextEdge ==
  last.kind = "apply" =>
    LET n == Len(ApplyText)
    IN /\ (/\ applyTr.selection.from = applyTr.selection.to
           /\ n >= 1
           /\ ApplyText[n] = opts.mentionTrigger
           /\ (n = 1 \/ ApplyText[n - 1] \in WhiteSpace))
            => IF opts.requireText
                 THEN ~applyState.active
                 ELSE /\ applyState.active
                      /\ applyState.type = "mention"
                      /\ applyState.text = <<>>
                      /\ applyState.range.to - applyState.range.from = 1
       /\ (opts.requireText /\ applyState.active) =>
            /\ applyState.text # <<>>
            /\ ClaimWordChar(applyState.text[1]) \/ applyState.text[1] = "_"
       /\ n = 0 => ~applyState.active

\* C18 (as the specification states it): in an active state
\* lineStart <= range.from <= range.to, range.to is the caret, both are
\* positions of the document, and the character at range.from is the
\* trigger of the state's type.
C18_ActiveSpan ==
  (last.kind = "apply" /\ applyState.active)
    => LET range == applyState.range
       IN /\ DocStart <= range.from
          /\ range.from <= range.to
          /\ range.to = applyTr.selection.from
          /\ range.to <= DocStart + Len(applyTr.content)
          /\ range.from < range.to
          /\ applyTr.content[range.from - DocStart + 1]
               = TextNode(IF applyState.type = "mention" THEN opts.mentionTrigger
                          ELSE opts.hashtagTrigger)

\* What each pattern finds in the text before the caret.
MentionMatch ==
  match(ApplyText, getRegexp(opts.mentionTrigger, opts.hashtagTrigger, opts.allowSpace,
                             opts.requireText).mention)
TagMatch ==
  match(ApplyText, getRegexp(opts.mentionTrigger, opts.hashtagTrigger, opts.allowSpace,
                             opts.requireText).tag)

\* C15 (as the specification states it): when the mention pattern matches,
\* the state is a mention with that match's query text, whether or not the
\* tag pattern matches; it is a tag only when the mention pattern does not
\* match and the tag pattern does; and with two distinct triggers, neither a
\* word character nor white space, the two patterns never both match.
C15_MatchPrecedence ==
  (last.kind = "apply" /\ applyTr.selection.from = applyTr.selection.to) =>
    /\ MentionMatch.found =>
         /\ applyState.active
         /\ applyState.type = "mention"
         /\ applyState.text = MentionMatch.g2
         /\ applyState.range.to = applyTr.selection.from
    /\ applyState.type = "tag" <=> (~MentionMatch.found /\ TagMatch.found)
    /\ (/\ opts.mentionTrigger # opts.hashtagTrigger
        /\ ~ClaimWordChar(opts.mentionTrigger) /\ opts.mentionTrigger \notin WhiteSpace
        /\ ~ClaimWordChar(opts.hashtagTrigger) /\ opts.hashtagTrigger \notin WhiteSpace)
         => ~(MentionMatch.found /\ TagMatch.found)

\* C20: with one editor, whenever a timer runs getSuggestions the plugin
\* state (the one the latest view update saw) is active and the type and
\* text passed are that state's; and at most one timer is pending.
C20_FetchArgsCurrent ==
  /\ last.kind = "timer" =>
       /\ pstate[1].active
       /\ last.query = Query(pstate[1])
  /\ Cardinality(timers) <= 1
  /\ \A t \in timers : pstate[1].active /\ t.query = Query(pstate[1])

\* getSuggestions ran for a query that had replaced an earlier one.
C20_Witness ==
  /\ last.kind = "timer"
  /\ last.calls = <<"getSuggestions">>
  /\ last.query = [type |-> "mention", text |-> <<"a">>]
  /\ [inst |-> 1, query |-> [type |-> "mention", text |-> <<>>]] \in inflight

\* C19 (as the claim states it): once the plugin view's destroy() has run,
\* no hook of the caller is called any more for that editor: no timer runs
\* getSuggestions, no completion calls showList or showDropdownEl, and the
\* removed element is not made visible again.
C19_Teardown ==
  (destroyed[1] /\ last.kind \in {"timer", "callWhenDone"})
    => /\ ~Called("getSuggestions")
       /\ ~Called("showList")
       /\ ~Called("showDropdownEl")
       /\ ~Visible(el[1])

\* An event after which a scheduled fetch need not happen: a transaction
\* (a view update), or Escape.
Interrupt ==
  \/ last.dispatched
  \/ last.kind = "keydown" /\ last.keyCode = 27 /\ last.consumed

\* C17, what holds in every state: a view update that saw an active state
\* has set a timer for the state's (type, text); at most one timer is
\* pending, and a timer that ran is gone; a completion for the query of the
\* unchanged active state shows the overlay with its items.
C17_Safe ==
  /\ (last.dispatched /\ pstate[1].active) =>
       \E t \in timers : t.inst = 1 /\ t.query = Query(pstate[1]) /\ t.elapsed = 0
  /\ Cardinality(timers) <= 1
  /\ last.kind = "timer" => \A t \in timers : t.id # last.id
  /\ (last.kind = "callWhenDone" /\ pstate[1].active /\ last.query = Query(pstate[1])) =>
       /\ last.calls = <<"showList", "showDropdownEl">>
       /\ ~last.threw
       /\ Visible(el[1])
       /\ el[1].items = last.query

\* C17, what holds of every step: the overlay becomes visible, and an error
\* is raised, only in a completion callback.
C17_Step ==
  /\ (~Visible(el[1]) /\ Visible(el'[1])) => last'.kind = "callWhenDone"
  /\ (last'.threw /\ last' # last) => last'.kind = "callWhenDone"

\* C17: the two above, and: a pending fetch for the state's query is
\* followed by getSuggestions being called with that query, unless a
\* transaction or Escape comes first.
C17_FetchLiveness ==
  /\ []C17_Safe
  /\ [][C17_Step]_vars
  /\ ((timers # {} /\ ~Interrupt)
        ~> (Interrupt \/ (last.kind = "timer" /\ last.query = Query(pstate[1]))))

\* The completion for the tag query "a" has shown its items while the state
\* still asks for them.
C17_Witness ==
  /\ last.kind = "callWhenDone"
  /\ last.query = [type |-> "tag", text |-> <<"a">>]
  /\ Query(pstate[1]) = last.query
  /\ pstate[1].active
  /\ Visible(el[1])
  /\ el[1].items = last.query

====
